---- MODULE Spec2Model ----
(***************************************************************************)
(* Multipart / block upload bindings of components-contrib.                *)
(*                                                                         *)
(* Three bindings are modelled, each from its own source file:             *)
(*   S3_*   src/bindings/aws/s3/s3.go   one shared session with a buffer   *)
(*   Key_*  src/unnamed/part_000        one session per blob key (backups) *)
(*   Az_*   src/unnamed/part_001        Azure block list (BlockIDs)        *)
(* The object store is the environment: every call the bindings make may   *)
(* succeed or fail, and what the store was asked to do is recorded.        *)
(***************************************************************************)
EXTENDS Integers, Sequences, FiniteSets, TLC

\* ------------------------------------------------------------------ bounds

\* Multipart uploads the store agrees to create in one run.
MaxUploads == 2
\* A put is taken only while the session's part number is at most MaxParts.
MaxParts == 2
\* part_001: a put is taken only while BlockIDs holds fewer than MaxBlocks ids.
MaxBlocks == 3
\* The flush threshold of s3.go (5242880 there), scaled to the payload sizes.
MinBufferSize == 2

\* ------------------------------------------------------------------ inputs

Keys == {"a", "b"}
\* req.Metadata["blobName"]; "" stands for a missing or empty blobName.
BlobNames == Keys \cup {""}
\* req.Metadata["offset"], a string given as its characters.
OffsetInputs == {<<"5">>, <<"1", "0">>}
\* Payload lengths of one put, in bytes.
ChunkLens == {0, 1, 2}
\* What may follow the well-formed hex digits of req.Metadata["data"]:
\* nothing, or one character that is no hex digit (and makes the length odd).
Tails == {<<>>, <<"g">>}

Nil == "nil"
NoOffset == 0 - 1

\* ------------------------------------------------------- pure functions

Digits == <<"0", "1", "2", "3", "4", "5", "6", "7", "8", "9">>
HexDigits == Digits \o <<"a", "b", "c", "d", "e", "f">>

IsHex(c) == \E i \in 1..16 : HexDigits[i] = c
HexVal(c) == (CHOOSE i \in 1..16 : HexDigits[i] = c) - 1

\* encoding/hex.DecodeString with its error dropped: the bytes decoded before
\* the first invalid character or the odd trailing digit.
RECURSIVE DecodeString(_)
DecodeString(s) ==
    IF Len(s) < 2 THEN <<>>
    ELSE IF IsHex(s[1]) /\ IsHex(s[2])
         THEN <<16 * HexVal(s[1]) + HexVal(s[2])>> \o DecodeString(SubSeq(s, 3, Len(s)))
         ELSE <<>>

\* The caller's hex encoding of its bytes.
RECURSIVE EncodeToString(_)
EncodeToString(bs) ==
    IF bs = <<>> THEN <<>>
    ELSE <<HexDigits[(bs[1] \div 16) + 1], HexDigits[(bs[1] % 16) + 1]>>
         \o EncodeToString(Tail(bs))

IsDigit(c) == \E i \in 1..10 : Digits[i] = c
DigitVal(c) == (CHOOSE i \in 1..10 : Digits[i] = c) - 1

RECURSIVE DecimalValue(_)
DecimalValue(s) ==
    IF s = <<>> THEN 0
    ELSE 10 * DecimalValue(SubSeq(s, 1, Len(s) - 1)) + DigitVal(s[Len(s)])

\* strconv.ParseInt(s, 10, 64): an optional sign, then decimal digits only.
Signs == {"+", "-"}
Unsigned(s) == IF s # <<>> /\ s[1] \in Signs THEN Tail(s) ELSE s

\* err == nil
ParseOk(s) == Unsigned(s) # <<>> /\ \A i \in 1..Len(Unsigned(s)) : IsDigit(Unsigned(s)[i])

\* The value ParseInt returns: 0 with a syntax error.
ParseInt(s) ==
    IF ~ParseOk(s) THEN 0
    ELSE IF s[1] = "-" THEN 0 - DecimalValue(Unsigned(s))
    ELSE DecimalValue(Unsigned(s))

\* strconv.FormatInt(n, 10)
RECURSIVE FormatNat(_)
FormatNat(n) ==
    IF n < 10 THEN <<Digits[n + 1]>> ELSE FormatNat(n \div 10) \o <<Digits[(n % 10) + 1]>>

FormatInt(n) == IF n < 0 THEN <<"-">> \o FormatNat(0 - n) ELSE FormatNat(n)

\* The caller's bytes.  The bindings never look into a payload, so the bytes
\* are chosen to tell where they come from: the bytes supplied to a session
\* are numbered from 1 in the order they arrive, from base.
KeyBase(blob) == CASE blob = "a" -> 0 [] blob = "b" -> 128 [] OTHER -> 64

Payload(base, from, len) == [i \in 1..len |-> base + from + i]

RECURSIVE Flatten(_)
Flatten(ss) == IF ss = <<>> THEN <<>> ELSE ss[1] \o Flatten(Tail(ss))

Ascending(s) == \A i \in 1..(Len(s) - 1) : s[i] <= s[i + 1]
StrictlyAscending(s) == \A i \in 1..(Len(s) - 1) : s[i] < s[i + 1]


\* ------------------------------------------------------------------- state

VARIABLES
    \* s3.go, AWSS3: the one session of the binding
    PartNum, MultipartResponse, CompletedParts, buffer,
    \* part_000, AWSS3: the session table
    backups,
    \* part_001, AzureBlobStorage
    BlockIDs,
    \* the store: the multipart uploads it created, by upload id
    uploads,
    \* the store: the blocks staged on each blob
    staged,
    \* the operation that ran last: its request, the store calls it made in
    \* order, the error it returned, the object its commit assembled
    last,
    \* part_000: payload bytes supplied on each blob since its session began
    sent,
    \* s3.go: what the callers supplied since the session began: the number of
    \* payload bytes, whether every put named the session's key with an offset
    \* above the one before, and the last such offset
    declared,
    \* part_000 under concurrent puts: where each caller's put stands, and the
    \* request and the copy of the session entry it works on
    pc, local,
    \* per upload id, the part numbers of the upload-part calls issued and the
    \* number of them that succeeded
    partLog,
    \* the last get, delete or head: its request, its store calls, its result
    reply,
    \* part_001 list: where the loop stands
    listing

vars == <<PartNum, MultipartResponse, CompletedParts, buffer, backups, BlockIDs,
          uploads, staged, last, sent, declared, pc, local, partLog, reply, listing>>

convars == <<pc, local, partLog>>

objvars == <<reply, listing>>

s3vars == <<PartNum, MultipartResponse, CompletedParts, buffer>>

\* ------------------------------------------------------------------- store

\* A store call as the binding issued it; list: the parts of a commit call.
Call(api, id, key, pn, body, list, ok) ==
    [api |-> api, id |-> id, key |-> key, pn |-> pn, body |-> body, list |-> list,
     ok |-> ok]

\* object: the bytes of the object a successful commit assembled; offs: the
\* offsets declared by the puts that uploaded the parts of the commit call, in
\* the order of the call; said: what the callers had supplied to the session
\* the commit call ended.
Outcome(op, key, err, calls, object, offs, said) ==
    [op |-> op, key |-> key, err |-> err, calls |-> calls, object |-> object,
     offs |-> offs, said |-> said]

\* The tag the store returns for an uploaded part: derived from its content.
ETag(body) == body

\* The SDK refuses an empty key before sending; the store creates at most
\* MaxUploads uploads.
CreateAllowed(ups, key) == key # "" /\ Len(ups) < MaxUploads

NewUpload(key) == [key |-> key, status |-> "open", parts |-> {}]

IsOpen(ups, id) == id \in 1..Len(ups) /\ ups[id].status = "open"

\* UploadPart: a part uploaded again under the same number replaces the first.
WithPart(ups, id, pn, body, off) ==
    [ups EXCEPT ![id].parts =
        {p \in @ : p.pn # pn} \cup {[pn |-> pn, body |-> body, off |-> off]}]

\* An upload that was aborted or whose commit call was answered: its id is
\* never given out again, and the model keeps nothing else of it.
Closed == [key |-> Nil, status |-> "closed", parts |-> {}]

\* AbortMultipartUpload: the store drops the upload and its parts.
WithAbort(ups, id) == IF IsOpen(ups, id) THEN [ups EXCEPT ![id] = Closed] ELSE ups

\* CompleteMultipartUpload can succeed when every listed part was uploaded
\* with the listed tag.
Listed(ups, id, list) ==
    /\ IsOpen(ups, id)
    /\ \A i \in 1..Len(list) :
          \E p \in ups[id].parts : p.pn = list[i].PartNumber /\ ETag(p.body) = list[i].ETag

StoredPart(ups, id, pn) == CHOOSE p \in ups[id].parts : p.pn = pn

\* The object a commit assembles: the listed parts' bodies in the listed order.
ObjectOf(ups, id, list) ==
    Flatten([i \in 1..Len(list) |-> StoredPart(ups, id, list[i].PartNumber).body])

OffsetsOf(ups, id, list) ==
    [i \in 1..Len(list) |-> StoredPart(ups, id, list[i].PartNumber).off]

\* CompleteMultipartUpload, answered with success or failure.
WithComplete(ups, id) == IF IsOpen(ups, id) THEN [ups EXCEPT ![id] = Closed] ELSE ups

NoDeclared == [bytes |-> 0, ordered |-> TRUE, lastOff |-> NoOffset]

Declare(d, key, blob, off, n) ==
    IF d.ordered /\ blob = key /\ ParseInt(off) > d.lastOff
    THEN [bytes |-> d.bytes + n, ordered |-> TRUE, lastOff |-> ParseInt(off)]
    ELSE [bytes |-> d.bytes + n, ordered |-> FALSE, lastOff |-> NoOffset]

\* ------------------------------------------------------------------- s3.go

\* s.MultipartResponse = nil
NilResponse == [nil |-> TRUE, UploadId |-> 0, Key |-> Nil]

\* CreateMultipartUpload's output when the call fails: not nil, its fields nil.
EmptyOutput == [nil |-> FALSE, UploadId |-> 0, Key |-> Nil]

\* CreateMultipartUpload's output when the call succeeds.
Output(id, key) == [nil |-> FALSE, UploadId |-> id, Key |-> key]

\* a buffer that grows at the wrong end: the chunk in front of the buffered bytes
AppendBuffer_InFront(old, chunk) == chunk \o old

\* s.buffer = append(s.buffer, buffer...)
AppendBuffer(old, chunk) == old \o chunk

\* a flush that waits for more than the threshold
FlushDue_Late(buf) == Len(buf) > MinBufferSize

\* put returns before any upload while len(s.buffer) < MinBufferSize.
FlushDue(buf) == Len(buf) >= MinBufferSize

\* a final part that obeys the threshold: a shorter one is not sent
FinalBody_OnlyFull(buf) == IF Len(buf) < MinBufferSize THEN <<>> ELSE buf

\* Body of the part putblocklist uploads: s.buffer, whatever its length.
FinalBody(buf) == buf

\* a session that outlives its upload
Reset_Kept == MultipartResponse

\* s.MultipartResponse = nil once the upload was aborted or committed.
Reset == NilResponse

\* a part number that does not advance
NextPartNum_Same(n) == n

\* s.PartNum++ / backup.PartNum++ after a part was uploaded.
NextPartNum(n) == n + 1

\* s.buffer = nil after UploadPart.
Drained == <<>>

S3_put ==
    /\ PartNum <= MaxParts
    /\ \E blob \in BlobNames, off \in OffsetInputs, len \in ChunkLens, tail \in Tails :
        LET data == EncodeToString(Payload(0, declared.bytes, len)) \o tail
            chunk == DecodeString(data)
            create == MultipartResponse.nil
            buf == AppendBuffer(buffer, chunk)
        IN  \E okCreate \in (IF create THEN BOOLEAN ELSE {FALSE}),
               okUpload \in (IF FlushDue(buf) THEN BOOLEAN ELSE {FALSE}) :
            LET created == create /\ okCreate /\ CreateAllowed(uploads, blob)
                mr == IF ~create THEN MultipartResponse
                      ELSE IF created THEN Output(Len(uploads) + 1, blob)
                      ELSE EmptyOutput
                ups1 == IF created THEN Append(uploads, NewUpload(blob)) ELSE uploads
                c1 == IF create
                      THEN <<Call("CreateMultipartUpload", mr.UploadId, blob, 0, <<>>, <<>>,
                                  created)>>
                      ELSE <<>>
                uploaded == okUpload /\ IsOpen(ups1, mr.UploadId)
                c2 == Append(c1, Call("UploadPart", mr.UploadId, mr.Key, PartNum, buf, <<>>,
                                      uploaded))
                c3 == Append(c2, Call("AbortMultipartUpload", mr.UploadId, mr.Key, 0, <<>>,
                                      <<>>, IsOpen(ups1, mr.UploadId)))
            IN  IF ~FlushDue(buf)
                THEN /\ MultipartResponse' = mr
                     /\ buffer' = buf
                     /\ uploads' = ups1
                     /\ declared' = Declare(declared, mr.Key, blob, off, Len(chunk))
                     /\ last' = Outcome("put", blob, FALSE, c1, <<>>, <<>>, NoDeclared)
                     /\ UNCHANGED <<PartNum, CompletedParts>>
                ELSE IF ~uploaded
                THEN /\ MultipartResponse' = Reset
                     /\ buffer' = Drained
                     /\ PartNum' = 1
                     /\ CompletedParts' = <<>>
                     /\ uploads' = WithAbort(ups1, mr.UploadId)
                     /\ declared' = NoDeclared
                     /\ last' = Outcome("put", blob, TRUE, c3, <<>>, <<>>, NoDeclared)
                ELSE /\ MultipartResponse' = mr
                     /\ buffer' = Drained
                     /\ CompletedParts' =
                            Append(CompletedParts, [ETag |-> ETag(buf), PartNumber |-> PartNum])
                     /\ PartNum' = NextPartNum(PartNum)
                     /\ uploads' = WithPart(ups1, mr.UploadId, PartNum, buf, ParseInt(off))
                     /\ declared' = Declare(declared, mr.Key, blob, off, Len(chunk))
                     /\ last' = Outcome("put", blob, FALSE, c2, <<>>, <<>>, NoDeclared)
    /\ UNCHANGED <<backups, BlockIDs, staged, sent, convars, objvars>>

S3_putblocklist ==
    /\ \E blob \in BlobNames :
        IF MultipartResponse.nil
        THEN /\ last' = Outcome("putblocklist", blob, FALSE, <<>>, <<>>, <<>>, NoDeclared)
             /\ UNCHANGED <<s3vars, uploads, declared>>
        ELSE
        \E okUpload \in BOOLEAN, okComplete \in BOOLEAN :
        LET mr == MultipartResponse
            body == FinalBody(buffer)
            uploaded == okUpload /\ IsOpen(uploads, mr.UploadId)
            c1 == <<Call("UploadPart", mr.UploadId, mr.Key, PartNum, body, <<>>, uploaded)>>
            c2 == Append(c1, Call("AbortMultipartUpload", mr.UploadId, mr.Key, 0, <<>>, <<>>,
                                  IsOpen(uploads, mr.UploadId)))
            parts == Append(CompletedParts, [ETag |-> ETag(body), PartNumber |-> PartNum])
            ups1 == WithPart(uploads, mr.UploadId, PartNum, body, NoOffset)
            completed == okComplete /\ Listed(ups1, mr.UploadId, parts)
            c3 == Append(c1, Call("CompleteMultipartUpload", mr.UploadId, mr.Key, 0, <<>>,
                                  parts, completed))
        IN  /\ MultipartResponse' = Reset
            /\ buffer' = Drained
            /\ PartNum' = 1
            /\ CompletedParts' = <<>>
            /\ declared' = NoDeclared
            /\ IF ~uploaded
               THEN /\ uploads' = WithAbort(uploads, mr.UploadId)
                    /\ last' = Outcome("putblocklist", blob, TRUE, c2, <<>>, <<>>, NoDeclared)
               ELSE /\ uploads' = WithComplete(ups1, mr.UploadId)
                    /\ last' = Outcome("putblocklist", blob, ~completed, c3,
                                       IF completed THEN ObjectOf(ups1, mr.UploadId, parts)
                                       ELSE <<>>,
                                       OffsetsOf(ups1, mr.UploadId, parts), declared)
    /\ UNCHANGED <<backups, BlockIDs, staged, sent, convars, objvars>>

\* part_000: s.backups = make(map[string]Backup)
NoBackups == [k \in {} |-> 0]

\* The goroutines of the host that invoke the binding at the same time.
Callers == {1, 2}

\* No get, delete or head was invoked yet.
NoReply ==
    [binding |-> "", op |-> "Init", key |-> "", off |-> <<>>, cnt |-> <<>>, err |-> FALSE,
     calls |-> <<>>]

\* No list is under way.
NotListing ==
    [at |-> "idle", total |-> 0, MaxResults |-> 0, asked |-> 0, numBlobs |-> 0,
     rounds |-> 0, err |-> FALSE, marker |-> "none"]

\* A caller that is in no put.
NoRequest == [blob |-> "", off |-> <<>>, buf |-> <<>>, num |-> 0, id |-> 0, parts |-> <<>>]

\* Init of s3.go: PartNum = 1, no upload, no buffer.
Init ==
    /\ PartNum = 1
    /\ MultipartResponse = NilResponse
    /\ CompletedParts = <<>>
    /\ buffer = <<>>
    /\ backups = NoBackups
    /\ BlockIDs = <<>>
    /\ uploads = <<>>
    /\ staged = [b \in Keys |-> {}]
    /\ last = Outcome("Init", "", FALSE, <<>>, <<>>, <<>>, NoDeclared)
    /\ sent = [b \in BlobNames |-> 0]
    /\ declared = NoDeclared
    /\ pc = [t \in Callers |-> "idle"]
    /\ local = [t \in Callers |-> NoRequest]
    /\ partLog = <<>>
    /\ reply = NoReply
    /\ listing = NotListing

NextS3 == S3_put \/ S3_putblocklist

SpecS3 == Init /\ [][NextS3]_vars

\* ------------------------------------------------------------ part_000

Backup(n, mr, parts) == [PartNum |-> n, MultipartResponse |-> mr, CompletedParts |-> parts]

Part(etag, n, off) ==
    [CompletedPart |-> [ETag |-> etag, PartNumber |-> n], Offset |-> off]

\* s.backups[key] = backup
Store(table, key, backup) ==
    [k \in DOMAIN table \cup {key} |-> IF k = key THEN backup ELSE table[k]]

\* delete(s.backups, key)
\* an entry that stays in the table
Delete_Kept(table, key) == table

\* delete(s.backups, key)
Delete(table, key) == [k \in DOMAIN table \ {key} |-> table[k]]

\* The less function putblocklist sorts with.
\* an order that lets the later of two equal offsets go first
Less_OrEqual(p, q) == p.Offset <= q.Offset

\* func(i, j int) bool of sort.SliceStable
Less(p, q) == p.Offset < q.Offset

RECURSIVE Insert(_, _)
Insert(sorted, p) ==
    IF sorted = <<>> THEN <<p>>
    ELSE IF Less(p, sorted[1]) THEN <<p>> \o sorted
    ELSE <<sorted[1]>> \o Insert(Tail(sorted), p)

\* sort.SliceStable: elements that are not Less than one another keep their order.
RECURSIVE SliceStable(_)
SliceStable(s) ==
    IF s = <<>> THEN <<>>
    ELSE Insert(SliceStable(SubSeq(s, 1, Len(s) - 1)), s[Len(s)])

\* Payload lengths of one put of part_000, which uploads every payload as a
\* part of its own.
KeyChunkLens == {1}

\* initbackup creates an upload only for a key that has no entry.
NeedsBackup(key) == key \notin DOMAIN backups

\* The entry initbackup stores for a new upload.
FirstBackup(id, key) == Backup(1, Output(id, key), <<>>)

Key_put ==
    /\ \E blob \in BlobNames, off \in OffsetInputs, len \in KeyChunkLens, tail \in Tails :
        /\ ~NeedsBackup(blob) => backups[blob].PartNum <= MaxParts
        /\ LET data == EncodeToString(Payload(KeyBase(blob), sent[blob], len)) \o tail
               buf == DecodeString(data)
               create == NeedsBackup(blob)
           IN  \E okCreate \in (IF create THEN BOOLEAN ELSE {FALSE}), okUpload \in BOOLEAN :
               LET created == create /\ okCreate /\ CreateAllowed(uploads, blob)
                   c1 == IF create
                         THEN <<Call("CreateMultipartUpload",
                                     IF created THEN Len(uploads) + 1 ELSE 0, blob, 0, <<>>,
                                     <<>>, created)>>
                         ELSE <<>>
               IN  IF create /\ ~created
                   THEN /\ last' = Outcome("put", blob, TRUE, c1, <<>>, <<>>, NoDeclared)
                        /\ UNCHANGED <<backups, uploads, sent>>
                   ELSE
                   LET ups1 == IF created THEN Append(uploads, NewUpload(blob)) ELSE uploads
                       backup == IF created THEN FirstBackup(Len(uploads) + 1, blob)
                                 ELSE backups[blob]
                       mr == backup.MultipartResponse
                       uploaded == okUpload /\ IsOpen(ups1, mr.UploadId)
                       c2 == Append(c1, Call("UploadPart", mr.UploadId, mr.Key,
                                             backup.PartNum, buf, <<>>, uploaded))
                       c3 == Append(c2, Call("AbortMultipartUpload", mr.UploadId, mr.Key, 0,
                                             <<>>, <<>>, IsOpen(ups1, mr.UploadId)))
                   IN  IF ~uploaded
                       THEN /\ backups' = Delete(backups, blob)
                            /\ uploads' = WithAbort(ups1, mr.UploadId)
                            /\ sent' = [sent EXCEPT ![blob] = 0]
                            /\ last' = Outcome("put", blob, TRUE, c3, <<>>, <<>>, NoDeclared)
                       ELSE /\ backups' =
                                Store(backups, blob,
                                      Backup(NextPartNum(backup.PartNum), mr,
                                             Append(backup.CompletedParts,
                                                    Part(ETag(buf), backup.PartNum,
                                                         ParseInt(off)))))
                            /\ uploads' = WithPart(ups1, mr.UploadId, backup.PartNum, buf,
                                                   ParseInt(off))
                            /\ sent' = [sent EXCEPT ![blob] = @ + Len(buf)]
                            /\ last' = Outcome("put", blob, FALSE, c2, <<>>, <<>>, NoDeclared)
    /\ UNCHANGED <<s3vars, BlockIDs, staged, declared, convars, objvars>>

Key_putblocklist ==
    /\ \E blob \in BlobNames :
        LET create == NeedsBackup(blob)
        IN  \E okCreate \in (IF create THEN BOOLEAN ELSE {FALSE}), okComplete \in BOOLEAN :
            LET created == create /\ okCreate /\ CreateAllowed(uploads, blob)
                c1 == IF create
                      THEN <<Call("CreateMultipartUpload",
                                  IF created THEN Len(uploads) + 1 ELSE 0, blob, 0, <<>>,
                                  <<>>, created)>>
                      ELSE <<>>
            IN  IF create /\ ~created
                THEN /\ last' = Outcome("putblocklist", blob, TRUE, c1, <<>>, <<>>, NoDeclared)
                     /\ UNCHANGED <<backups, uploads, sent>>
                ELSE
                LET ups1 == IF created THEN Append(uploads, NewUpload(blob)) ELSE uploads
                    backup == IF created THEN FirstBackup(Len(uploads) + 1, blob)
                              ELSE backups[blob]
                    mr == backup.MultipartResponse
                    sorted == SliceStable(backup.CompletedParts)
                    parts == [i \in 1..Len(sorted) |-> sorted[i].CompletedPart]
                    completed == okComplete /\ Listed(ups1, mr.UploadId, parts)
                    c2 == Append(c1, Call("CompleteMultipartUpload", mr.UploadId, mr.Key, 0,
                                          <<>>, parts, completed))
                IN  /\ backups' = Delete(backups, blob)
                    /\ uploads' = WithComplete(ups1, mr.UploadId)
                    /\ sent' = [sent EXCEPT ![blob] = 0]
                    /\ last' = Outcome("putblocklist", blob, ~completed, c2,
                                       IF completed THEN ObjectOf(ups1, mr.UploadId, parts)
                                       ELSE <<>>,
                                       OffsetsOf(ups1, mr.UploadId, parts), NoDeclared)
    /\ UNCHANGED <<s3vars, BlockIDs, staged, declared, convars, objvars>>

NextKey == Key_put \/ Key_putblocklist

SpecKey == Init /\ [][NextKey]_vars

\* ------------------------------------------------------------ part_001

\* The zero byte make([]byte, n) fills a slice with.
NUL == "NUL"

\* Length the block ids are padded to.
BlockIDLen == 64

\* The characters of the modelled strings in byte order.
Alphabet == <<NUL>> \o HexDigits \o <<"g">>
Code(c) == CHOOSE i \in 1..Len(Alphabet) : Alphabet[i] = c

\* Go's string comparison: byte by byte, a proper prefix first.
RECURSIVE StrLess(_, _)
StrLess(a, b) ==
    IF a = <<>> THEN b # <<>>
    ELSE IF b = <<>> THEN FALSE
    ELSE IF a[1] # b[1] THEN Code(a[1]) < Code(b[1])
    ELSE StrLess(Tail(a), Tail(b))

RECURSIVE InsertString(_, _)
InsertString(sorted, x) ==
    IF sorted = <<>> THEN <<x>>
    ELSE IF StrLess(x, sorted[1]) THEN <<x>> \o sorted
    ELSE <<sorted[1]>> \o InsertString(Tail(sorted), x)

\* sort.Strings
RECURSIVE Strings(_)
Strings(s) == IF s = <<>> THEN <<>> ELSE InsertString(Strings(Tail(s)), s[1])

\* Leadingzeros: 64 - len(offset) bytes from make; the loop that would set
\* them to '0' runs len(BlockID) times with BlockID still empty.
Leadingzeros(off) == [i \in 1..(BlockIDLen - Len(off)) |-> NUL]

BlockID(off) == Leadingzeros(off) \o off

\* val, ok := req.Metadata["blobName"]; ok && val != ""
HasBlobName(blob) == blob # ""

\* StageBlock: a block staged again under the same id replaces the first.
WithBlock(st, blob, id, body, off) ==
    [st EXCEPT ![blob] = {b \in @ : b.id # id} \cup {[id |-> id, body |-> body, off |-> off]}]

\* CommitBlockList can succeed when every listed id is staged on the blob.
StagedAll(st, blob, ids) ==
    \A i \in 1..Len(ids) : \E b \in st[blob] : b.id = ids[i]

StagedBlock(st, blob, id) == CHOOSE b \in st[blob] : b.id = id

BlobOf(st, blob, ids) ==
    Flatten([i \in 1..Len(ids) |-> StagedBlock(st, blob, ids[i]).body])

BlockOffsets(st, blob, ids) ==
    [i \in 1..Len(ids) |-> StagedBlock(st, blob, ids[i]).off]

Az_put ==
    /\ Len(BlockIDs) < MaxBlocks
    /\ \E blob \in BlobNames, off \in OffsetInputs, len \in KeyChunkLens, tail \in Tails :
        IF ~HasBlobName(blob)
        THEN /\ last' = Outcome("put", blob, TRUE, <<>>, <<>>, <<>>, NoDeclared)
             /\ UNCHANGED <<BlockIDs, staged>>
        ELSE
        LET data == EncodeToString(Payload(KeyBase(blob), 0, len)) \o tail
            buf == DecodeString(data)
            id == BlockID(off)
        IN  \E okStage \in BOOLEAN :
            /\ BlockIDs' = Append(BlockIDs, id)
            /\ staged' = IF okStage THEN WithBlock(staged, blob, id, buf, ParseInt(off))
                         ELSE staged
            /\ last' = Outcome("put", blob, ~okStage,
                               <<Call("StageBlock", 0, blob, 0, buf, <<id>>, okStage)>>,
                               <<>>, <<>>, NoDeclared)
    /\ UNCHANGED <<s3vars, backups, uploads, sent, declared, convars, objvars>>

Az_putblocklist ==
    /\ \E blob \in BlobNames :
        IF ~HasBlobName(blob)
        THEN /\ last' = Outcome("putblocklist", blob, TRUE, <<>>, <<>>, <<>>, NoDeclared)
             /\ UNCHANGED <<BlockIDs, staged>>
        ELSE
        \E okCommit \in BOOLEAN :
        LET ids == Strings(BlockIDs)
            committed == okCommit /\ StagedAll(staged, blob, ids)
        IN  /\ BlockIDs' = <<>>
            /\ staged' = IF committed THEN [staged EXCEPT ![blob] = {}] ELSE staged
            /\ last' = Outcome("putblocklist", blob, ~committed,
                               <<Call("CommitBlockList", 0, blob, 0, <<>>, ids, committed)>>,
                               IF committed THEN BlobOf(staged, blob, ids) ELSE <<>>,
                               IF committed THEN BlockOffsets(staged, blob, ids) ELSE <<>>,
                               NoDeclared)
    /\ UNCHANGED <<s3vars, backups, uploads, sent, declared, convars, objvars>>

NextAz == Az_put \/ Az_putblocklist

SpecAz == Init /\ [][NextAz]_vars

\* ------------------------------------------- part_000, concurrent puts

\* AWSS3 holds no lock: two puts interleave wherever one of them waits for
\* the store.  A put is split where it reads or writes s.backups.  Every
\* append here is to a slice whose length is its capacity (at most two
\* entries), so each caller appends to an array of its own.

ConcOffsets == {<<"5">>}

NoLog == [issued |-> <<>>, landed |-> 0]

\* put reads its request and initbackup looks the key up (line 215).
Conc_begin(t) ==
    /\ pc[t] = "idle"
    /\ \E blob \in Keys, off \in ConcOffsets :
        /\ ~NeedsBackup(blob) => backups[blob].PartNum <= MaxParts
        /\ local' = [local EXCEPT ![t] =
                        [NoRequest EXCEPT !.blob = blob, !.off = off,
                            !.buf = DecodeString(EncodeToString(
                                        Payload(KeyBase(blob), 16 * t, 1)))]]
        /\ pc' = [pc EXCEPT ![t] = IF NeedsBackup(blob) THEN "create" ELSE "have"]
    /\ UNCHANGED <<s3vars, backups, BlockIDs, uploads, staged, last, sent, declared, partLog, objvars>>

\* initbackup: CreateMultipartUpload returns and the entry is stored (221-231).
Conc_create(t) ==
    /\ pc[t] = "create"
    /\ \E okCreate \in BOOLEAN :
        LET blob == local[t].blob
            created == okCreate /\ CreateAllowed(uploads, blob)
        IN  IF ~created
            THEN /\ pc' = [pc EXCEPT ![t] = "idle"]
                 /\ local' = [local EXCEPT ![t] = NoRequest]
                 /\ UNCHANGED <<backups, uploads, partLog>>
            ELSE /\ uploads' = Append(uploads, NewUpload(blob))
                 /\ partLog' = Append(partLog, NoLog)
                 /\ backups' = Store(backups, blob, FirstBackup(Len(uploads) + 1, blob))
                 /\ pc' = [pc EXCEPT ![t] = "have"]
                 /\ UNCHANGED local
    /\ UNCHANGED <<s3vars, BlockIDs, staged, last, sent, declared, objvars>>

\* backup := s.backups[key], and UploadPart is issued with its PartNum
\* (245-253).  The entry of a key deleted in between is the zero Backup, whose
\* MultipartResponse is nil: the put panics.
Conc_issue(t) ==
    /\ pc[t] = "have"
    /\ LET blob == local[t].blob
       IN  IF NeedsBackup(blob)
           THEN /\ pc' = [pc EXCEPT ![t] = "panic"]
                /\ UNCHANGED <<local, partLog>>
           ELSE LET backup == backups[blob]
                    id == backup.MultipartResponse.UploadId
                IN  /\ local' = [local EXCEPT ![t].num = backup.PartNum, ![t].id = id,
                                              ![t].parts = backup.CompletedParts]
                    /\ partLog' = [partLog EXCEPT ![id].issued = Append(@, backup.PartNum)]
                    /\ pc' = [pc EXCEPT ![t] = "upload"]
    /\ UNCHANGED <<s3vars, backups, BlockIDs, uploads, staged, last, sent, declared, objvars>>

\* UploadPart returns: the entry is deleted, or the caller's copy with the
\* new part appended is stored over it (255-271).
Conc_finish(t) ==
    /\ pc[t] = "upload"
    /\ \E okUpload \in BOOLEAN :
        LET r == local[t]
            uploaded == okUpload /\ IsOpen(uploads, r.id)
        IN  IF ~uploaded
            THEN /\ uploads' = WithAbort(uploads, r.id)
                 /\ backups' = Delete(backups, r.blob)
                 /\ partLog' = [partLog EXCEPT ![r.id] = NoLog]
            ELSE /\ uploads' = WithPart(uploads, r.id, r.num, r.buf, ParseInt(r.off))
                 /\ backups' = Store(backups, r.blob,
                                     Backup(NextPartNum(r.num), Output(r.id, r.blob),
                                            Append(r.parts,
                                                   Part(ETag(r.buf), r.num, ParseInt(r.off)))))
                 /\ partLog' = [partLog EXCEPT ![r.id].landed = @ + 1]
    /\ pc' = [pc EXCEPT ![t] = "idle"]
    /\ local' = [local EXCEPT ![t] = NoRequest]
    /\ UNCHANGED <<s3vars, BlockIDs, staged, last, sent, declared, objvars>>

NextConc ==
    \E t \in Callers : Conc_begin(t) \/ Conc_create(t) \/ Conc_issue(t) \/ Conc_finish(t)

SpecConc == Init /\ [][NextConc]_vars

\* ------------------------------------------------- get, delete and head

putvars == <<s3vars, backups, BlockIDs, uploads, staged, last, sent, declared>>

\* req.Metadata["offset"] and req.Metadata["count"] of a get; <<>> when the
\* request has none.
GetOffsets == {<<>>, <<"0">>, <<"5">>, <<"x">>, <<"+", "5">>}
GetCounts == {<<>>, <<"0">>, <<"3">>, <<"1", "0">>, <<"x">>}

\* A store call of get, delete or head.  range: the Range header of an S3
\* GetObject; offset, count: the arguments of an Azure Download.
ObjCall(api, key, range, offset, count, ok) ==
    [api |-> api, key |-> key, range |-> range, offset |-> offset, count |-> count,
     ok |-> ok]

Reply(binding, op, key, off, cnt, err, calls) ==
    [binding |-> binding, op |-> op, key |-> key, off |-> off, cnt |-> cnt, err |-> err,
     calls |-> calls]

\* A GetObjectInput without Range.
NoRange == <<>>

\* s3range := "bytes=" + offset + "-" + FormatInt(offset + count - 1)
S3Range(off, cnt) ==
    <<"bytes=">> \o off \o <<"-">> \o FormatInt(ParseInt(off) + ParseInt(cnt) - 1)

\* key = uuid.New().String()
NewUUID == "uuid"

\* s3.go get: the result of Download is dropped, and nil is returned.
S3_get ==
    /\ \E blob \in BlobNames, off \in GetOffsets, cnt \in GetCounts, okDownload \in BOOLEAN :
        LET range == IF ParseOk(off) /\ ParseOk(cnt) THEN S3Range(off, cnt) ELSE NoRange
            done == okDownload /\ blob # ""
        IN  reply' = Reply("s3", "get", blob, off, cnt, FALSE,
                           <<ObjCall("GetObject", blob, range, 0, 0, done)>>)
    /\ UNCHANGED <<putvars, convars, listing>>

S3_delete ==
    /\ \E blob \in BlobNames, okDelete \in BOOLEAN :
        LET key == IF blob # "" THEN blob ELSE NewUUID
        IN  reply' = Reply("s3", "delete", blob, <<>>, <<>>, ~okDelete,
                           <<ObjCall("DeleteObject", key, NoRange, 0, 0, okDelete)>>)
    /\ UNCHANGED <<putvars, convars, listing>>

S3_head ==
    /\ \E blob \in BlobNames, okHead \in BOOLEAN :
        LET done == okHead /\ blob # ""
        IN  reply' = Reply("s3", "head", blob, <<>>, <<>>, ~done,
                           <<ObjCall("HeadObject", blob, NoRange, 0, 0, done)>>)
    /\ UNCHANGED <<putvars, convars, listing>>

\* part_001 get.  What GetMetadataAsBool answers for includeMetadata is left
\* open: fetch, or an error.
Az_get ==
    /\ \E blob \in BlobNames, off \in GetOffsets, cnt \in GetCounts :
        IF ~HasBlobName(blob)
        THEN reply' = Reply("az", "get", blob, off, cnt, TRUE, <<>>)
        ELSE
        LET offset == IF ParseOk(off) THEN ParseInt(off) ELSE 0
            count == IF ParseOk(cnt) THEN ParseInt(cnt) ELSE 0
        IN  \E okDownload \in BOOLEAN :
            LET c1 == <<ObjCall("Download", blob, NoRange, offset, count, okDownload)>>
            IN  IF ~okDownload
                THEN reply' = Reply("az", "get", blob, off, cnt, TRUE, c1)
                ELSE \E okBody \in BOOLEAN, okBool \in BOOLEAN, fetch \in BOOLEAN :
                     IF ~okBody \/ ~okBool
                     THEN reply' = Reply("az", "get", blob, off, cnt, TRUE, c1)
                     ELSE IF ~fetch
                     THEN reply' = Reply("az", "get", blob, off, cnt, FALSE, c1)
                     ELSE \E okProps \in BOOLEAN :
                          reply' = Reply("az", "get", blob, off, cnt, ~okProps,
                                         Append(c1, ObjCall("GetProperties", blob, NoRange,
                                                            0, 0, okProps)))
    /\ UNCHANGED <<putvars, convars, listing>>

\* part_001 delete.  Whether a given deleteSnapshots value is one the SDK
\* knows is left open.
Az_delete ==
    /\ \E blob \in BlobNames, given \in BOOLEAN, valid \in BOOLEAN, okDelete \in BOOLEAN :
        IF ~HasBlobName(blob) \/ (given /\ ~valid)
        THEN reply' = Reply("az", "delete", blob, <<>>, <<>>, TRUE, <<>>)
        ELSE reply' = Reply("az", "delete", blob, <<>>, <<>>, ~okDelete,
                            <<ObjCall("Delete", blob, NoRange, 0, 0, okDelete)>>)
    /\ UNCHANGED <<putvars, convars, listing>>

\* part_001 head: an answer without Content-Length is an error.
Az_head ==
    /\ \E blob \in BlobNames, okProps \in BOOLEAN, hasLength \in BOOLEAN :
        IF ~HasBlobName(blob)
        THEN reply' = Reply("az", "head", blob, <<>>, <<>>, TRUE, <<>>)
        ELSE reply' = Reply("az", "head", blob, <<>>, <<>>, ~okProps \/ ~hasLength,
                            <<ObjCall("GetProperties", blob, NoRange, 0, 0, okProps)>>)
    /\ UNCHANGED <<putvars, convars, listing>>

NextObj == S3_get \/ S3_delete \/ S3_head \/ Az_get \/ Az_delete \/ Az_head

SpecObj == Init /\ [][NextObj]_vars

\* ------------------------------------------------------- part_001, list

\* const maxResults: the page size of the store.
maxResults == 5000

\* payload.MaxResults of a list request; 0 when the payload names none.
ListMaxResults == {0, 1, 4999, 5000, 5001, 10000, 12000, 15001}

Min(a, b) == IF a < b THEN a ELSE b

\* How many blobs the store may answer to a request for n: none, one, or as
\* many as it was asked for, up to its page size.
Pages(n) == {k \in {0, 1, Min(n, maxResults)} : k <= n}

\* a loop that never breaks
GoesOn_Always(m) == TRUE

\* if options.MaxResults-maxResults > 0: another round, else break.
GoesOn(m) == m - maxResults > 0

\* The payload is parsed and options.MaxResults is set (lines 334-361).
List_start ==
    /\ listing.at = "idle"
    /\ \E m \in ListMaxResults, okJson \in BOOLEAN :
        listing' = IF ~okJson
                   THEN [NotListing EXCEPT !.total = m, !.err = TRUE]
                   ELSE [NotListing EXCEPT !.at = "loop", !.total = m, !.marker = "first",
                                           !.MaxResults = IF m # 0 THEN m ELSE maxResults]
    /\ UNCHANGED <<putvars, convars, reply>>

\* One round of the loop: ListBlobsFlatSegment, then the next page size or
\* the end of the loop (lines 366-385).
List_round ==
    /\ listing.at = "loop"
    /\ \E okList \in BOOLEAN :
        IF ~okList
        THEN listing' = [listing EXCEPT !.at = "idle", !.err = TRUE,
                                        !.asked = listing.MaxResults, !.numBlobs = 0]
        ELSE \E n \in Pages(listing.MaxResults), more \in BOOLEAN :
             listing' = [listing EXCEPT
                            !.asked = listing.MaxResults,
                            !.numBlobs = @ + n,
                            !.rounds = @ + 1,
                            !.marker = IF more THEN "more" ELSE "done",
                            !.MaxResults = IF GoesOn(@) THEN @ - maxResults ELSE @,
                            !.at = IF GoesOn(listing.MaxResults) /\ more
                                   THEN "loop" ELSE "idle"]
    /\ UNCHANGED <<putvars, convars, reply>>

NextList == List_start \/ List_round

SpecList == Init /\ [][NextList]_vars

\* Every call of ListBlobsFlatSegment returns, with a page or with an error.
SpecListFair == SpecList /\ WF_vars(List_round)

\* ------------------------------------------------------------ observations

IsUploadPart(c) == c.api = "UploadPart"
IsCreate(c) == c.api = "CreateMultipartUpload"
IsAbort(c) == c.api = "AbortMultipartUpload"
IsComplete(c) == c.api = "CompleteMultipartUpload"
WasDeclared(o) == o # NoOffset

UploadPartCalls == SelectSeq(last.calls, IsUploadPart)
CompleteCalls == SelectSeq(last.calls, IsComplete)
AllCallsOk == \A i \in 1..Len(last.calls) : last.calls[i].ok

\* ------------------------------------------------------------------ claims

\* C1: the part list handed to the store's commit call lists the uploaded
\* parts in ascending order of the offsets their puts declared.
C1_CommitInOffsetOrder == Ascending(SelectSeq(last.offs, WasDeclared))

\* C2: when the puts of a session all named its key, declared strictly
\* increasing offsets and supplied at least MinBufferSize bytes, and the
\* commit succeeds, the committed object is the supplied bytes in order.
C2_ObjectIsConcatenation ==
    (/\ last.op = "putblocklist"
     /\ CompleteCalls # <<>>
     /\ ~last.err
     /\ last.said.ordered
     /\ last.said.bytes >= MinBufferSize)
    => last.object = Payload(0, 0, last.said.bytes)

C2_Witness ==
    /\ last.op = "putblocklist"
    /\ CompleteCalls # <<>>
    /\ ~last.err
    /\ last.said.ordered
    /\ last.said.bytes > MinBufferSize
    /\ Len(CompleteCalls[1].list) = 3
    /\ last.object = Payload(0, 0, last.said.bytes)

\* C3: when the upload-part call of a put fails, no session is left for the
\* put's blob key when the put returns.
C3_FailedPutDropsSession ==
    (/\ last.op = "put"
     /\ \E i \in 1..Len(last.calls) :
           last.calls[i].api \in {"UploadPart", "StageBlock"} /\ ~last.calls[i].ok)
    => (/\ last.err
        /\ MultipartResponse.nil
        /\ last.key \notin DOMAIN backups
        /\ BlockIDs = <<>>)

\* C4: an operation that returns an error after the upload was created has
\* issued an abort for that upload.
C4_ErrorMeansAborted ==
    \A i \in 1..Len(last.calls) :
        (last.err /\ last.calls[i].id >= 1)
        => \E j \in 1..Len(last.calls) :
              IsAbort(last.calls[j]) /\ last.calls[j].id = last.calls[i].id

\* C5: a put issues at most one upload-part call, and only with at least
\* MinBufferSize pending bytes; a put that issues none leaves fewer pending.
C5_UploadsOnlyAtThreshold ==
    last.op = "put"
    => (/\ Len(UploadPartCalls) <= 1
        /\ \A i \in 1..Len(UploadPartCalls) :
              Len(UploadPartCalls[i].body) >= MinBufferSize
        /\ UploadPartCalls = <<>> => Len(buffer) < MinBufferSize)

\* C6: with an active session and a pending buffer that is not empty and
\* shorter than MinBufferSize, putblocklist uploads the buffer as the final
\* part, lists it last in the commit call, and succeeds when the store does.
C6_LastPartExempt ==
    [][(/\ last'.op = "putblocklist"
        /\ IsOpen(uploads, MultipartResponse.UploadId)
        /\ buffer # <<>>
        /\ Len(buffer) < MinBufferSize
        /\ \A i \in 1..Len(last'.calls) : last'.calls[i].ok)
       => (/\ ~last'.err
           /\ Len(last'.calls) = 2
           /\ IsUploadPart(last'.calls[1])
           /\ last'.calls[1].body = buffer
           /\ last'.calls[1].pn = PartNum
           /\ IsComplete(last'.calls[2])
           /\ last'.calls[2].list =
                 Append(CompletedParts, [ETag |-> ETag(buffer), PartNumber |-> PartNum])
           /\ SubSeq(last'.object, Len(last'.object) - Len(buffer) + 1, Len(last'.object))
                 = buffer)]_vars

C6_Witness ==
    /\ last.op = "putblocklist"
    /\ ~last.err
    /\ Len(last.calls) = 2
    /\ IsUploadPart(last.calls[1])
    /\ last.calls[1].body # <<>>
    /\ Len(last.calls[1].body) < MinBufferSize
    /\ IsComplete(last.calls[2])
    /\ last.calls[2].ok

\* C7: a put whose create call fails returns the error, registers no session,
\* buffers nothing and uploads nothing.
C7_FailedCreateIsFatal ==
    (/\ last.op = "put"
     /\ \E i \in 1..Len(last.calls) : IsCreate(last.calls[i]) /\ ~last.calls[i].ok)
    => (/\ last.err
        /\ UploadPartCalls = <<>>
        /\ MultipartResponse.nil
        /\ buffer = <<>>)

\* C8: when the commit call fails, putblocklist aborts the upload and drops
\* the session before it returns the error.
C8_FailedCommitAborts ==
    \A i \in 1..Len(last.calls) :
        (IsComplete(last.calls[i]) /\ ~last.calls[i].ok)
        => (/\ last.err
            /\ MultipartResponse.nil
            /\ \E j \in (i + 1)..Len(last.calls) :
                  IsAbort(last.calls[j]) /\ last.calls[j].id = last.calls[i].id)

\* C9: what an operation on one blob key uploads or commits goes to an upload
\* of that key.
C9_CallsStayOnKey ==
    \A i \in 1..Len(last.calls) :
        last.calls[i].id >= 1 => last.calls[i].key = last.key

NoDuplicates(q) == \A i, j \in 1..Len(q) : q[i] = q[j] => i = j

\* C10: under concurrent puts no part number is used by two upload-part calls
\* of one upload, and once every put has returned each session lists every
\* part that was uploaded exactly once.
C10_SerializedPerKey ==
    /\ \A id \in 1..Len(partLog) : NoDuplicates(partLog[id].issued)
    /\ (\A t \in Callers : pc[t] = "idle")
       => \A k \in DOMAIN backups :
             LET b == backups[k]
             IN  /\ Len(b.CompletedParts) = partLog[b.MultipartResponse.UploadId].landed
                 /\ NoDuplicates([i \in 1..Len(b.CompletedParts) |->
                                     b.CompletedParts[i].CompletedPart.PartNumber])

\* C11: putblocklist on a blob key without a session issues no store call and
\* leaves the sessions as they are.
C11_CommitWithoutSessionIsNoOp ==
    [][(/\ last'.op = "putblocklist"
        /\ MultipartResponse.nil
        /\ NeedsBackup(last'.key))
       => (/\ last'.calls = <<>>
           /\ MultipartResponse'.nil
           /\ backups' = backups)]_vars

PartNumbers(parts) == [i \in 1..Len(parts) |-> parts[i].PartNumber]
KeyPartNumbers(parts) == [i \in 1..Len(parts) |-> parts[i].CompletedPart.PartNumber]

\* C12: a part is uploaded under a number greater than that of every part the
\* store holds for the upload, and no list of completed parts names one part
\* number twice.  This is about operations invoked one after the other;
\* C10 is about puts that overlap.
C12_PartNumbersIncrease ==
    [][/\ \A i \in 1..Len(last'.calls) :
             (IsUploadPart(last'.calls[i]) /\ last'.calls[i].ok
              /\ IsOpen(uploads, last'.calls[i].id))
             => \A p \in uploads[last'.calls[i].id].parts : p.pn < last'.calls[i].pn
       /\ StrictlyAscending(PartNumbers(CompletedParts'))
       /\ \A k \in DOMAIN backups' :
             StrictlyAscending(KeyPartNumbers(backups'[k].CompletedParts))]_vars

C12_Witness ==
    /\ last.op = "put"
    /\ ~last.err
    /\ PartNumbers(CompletedParts) = <<1, 2>>
    /\ PartNum = 3

\* The bytes a caller supplies first to a session of the key.
FreshBytes(key) ==
    {Payload(base, 0, n) : base \in {0, KeyBase(key)}, n \in 0..MinBufferSize}

\* C13: a successful commit leaves no session for the blob key, and the put
\* that follows it on that key creates an upload of its own whose first part
\* is part 1 of a list that holds nothing else.
C13_CommitEndsSession ==
    [][/\ (/\ last'.op = "putblocklist"
           /\ ~last'.err
           /\ \E i \in 1..Len(last'.calls) : IsComplete(last'.calls[i]))
          => (/\ MultipartResponse'.nil
              /\ PartNum' = 1
              /\ CompletedParts' = <<>>
              /\ buffer' = <<>>
              /\ last'.key \notin DOMAIN backups')
       /\ (/\ last.op = "putblocklist"
           /\ ~last.err
           /\ CompleteCalls # <<>>
           /\ last'.op = "put"
           /\ last'.key = last.key)
          => (/\ last'.calls # <<>>
              /\ IsCreate(last'.calls[1])
              /\ last'.calls[1].ok => last'.calls[1].id = Len(uploads) + 1
              /\ \A i \in 1..Len(last'.calls) :
                    IsUploadPart(last'.calls[i])
                    => (/\ last'.calls[i].pn = 1
                        /\ last'.calls[i].id = last'.calls[1].id
                        /\ last'.calls[i].body \in FreshBytes(last'.key))
              /\ PartNumbers(CompletedParts') \in {<<>>, <<1>>}
              /\ buffer' \in FreshBytes(last'.key)
              /\ last'.key \in DOMAIN backups'
                 => (/\ KeyPartNumbers(backups'[last'.key].CompletedParts) = <<1>>
                     /\ backups'[last'.key].PartNum = 2
                     /\ backups'[last'.key].MultipartResponse.UploadId
                           = last'.calls[1].id))]_vars

C13_Witness ==
    /\ last.op = "putblocklist"
    /\ ~last.err
    /\ CompleteCalls # <<>>
    /\ Len(CompleteCalls[1].list) = 2
    /\ last.key \notin DOMAIN backups

\* C14: an upload is created only by a put that finds no session for its
\* blob key.
C14_CreateOnlyByFirstPut ==
    [][\A i \in 1..Len(last'.calls) :
          IsCreate(last'.calls[i])
          => (/\ last'.op = "put"
              /\ MultipartResponse.nil
              /\ NeedsBackup(last'.key))]_vars

\* C19: with a session and an empty pending buffer, putblocklist uploads no
\* part and commits the parts recorded so far.
C19_NoEmptyFinalPart ==
    [][(/\ last'.op = "putblocklist"
        /\ ~MultipartResponse.nil
        /\ buffer = <<>>)
       => (/\ \A i \in 1..Len(last'.calls) : ~IsUploadPart(last'.calls[i])
           /\ \A i \in 1..Len(last'.calls) :
                 IsComplete(last'.calls[i]) => last'.calls[i].list = CompletedParts)]_vars

\* C20: the list of a commit call is in ascending order of part number.
C20_CommitInPartNumberOrder ==
    \A i \in 1..Len(last.calls) :
        IsComplete(last.calls[i]) => StrictlyAscending(PartNumbers(last.calls[i].list))

\* C15: get, delete, head, put and putblocklist answer a request without
\* blobName with an error and issue no store call for it.
C15_BlobNameRequired ==
    /\ (reply.op \in {"get", "delete", "head"} /\ reply.key = "")
       => (reply.err /\ reply.calls = <<>>)
    /\ (last.op \in {"put", "putblocklist"} /\ last.key = "")
       => (last.err /\ last.calls = <<>>)

\* C16: an operation one of whose store calls failed returns an error.
C16_StoreErrorsSurface ==
    /\ (\E i \in 1..Len(reply.calls) : ~reply.calls[i].ok) => reply.err
    /\ (\E i \in 1..Len(last.calls) : ~last.calls[i].ok) => last.err

\* C17: get asks the store for the bytes offset .. offset + count - 1 when
\* offset and count both parse, and for the whole object from byte 0 when
\* either does not.
C17_GetRange ==
    (reply.op = "get" /\ reply.calls # <<>>)
    => LET both == ParseOk(reply.off) /\ ParseOk(reply.cnt)
           first == ParseInt(reply.off)
           n == ParseInt(reply.cnt)
           call == reply.calls[1]
       IN  IF reply.binding = "s3"
           THEN call.range = IF both
                             THEN <<"bytes=">> \o FormatInt(first) \o <<"-">>
                                  \o FormatInt(first + n - 1)
                             ELSE NoRange
           ELSE /\ call.offset = IF both THEN first ELSE 0
                /\ call.count = IF both THEN n ELSE 0

\* C18: no round of list asks the store for more than maxResults blobs, and
\* list gathers no more blobs than the caller's total (maxResults when the
\* caller names none).
C18_ListPageAndTotal ==
    /\ listing.asked <= maxResults
    /\ listing.numBlobs <= (IF listing.total = 0 THEN maxResults ELSE listing.total)

\* What the last entry of the completed parts of the session of a put holds.
LastEntry ==
    LET parts == IF last.key \in DOMAIN backups THEN backups[last.key].CompletedParts
                 ELSE CompletedParts
        e == parts[Len(parts)]
    IN  IF parts = <<>> THEN [none |-> TRUE]
        ELSE IF "CompletedPart" \in DOMAIN e
        THEN [ETag |-> e.CompletedPart.ETag, PartNumber |-> e.CompletedPart.PartNumber,
              Offset |-> e.Offset]
        ELSE e

\* C21: the entry a put adds for the part it uploaded holds the part number
\* and the tag of that upload and the offset that put declared.
C21_EntryCarriesOffset ==
    \A i \in 1..Len(last.calls) :
        (last.op = "put" /\ IsUploadPart(last.calls[i]) /\ last.calls[i].ok)
        => LET c == last.calls[i]
           IN  /\ DOMAIN LastEntry = {"ETag", "PartNumber", "Offset"}
               /\ LastEntry.PartNumber = c.pn
               /\ LastEntry.ETag = ETag(c.body)
               /\ LastEntry.Offset = StoredPart(uploads, c.id, c.pn).off

ZeroPadded(off) == [i \in 1..(BlockIDLen - Len(off)) |-> "0"] \o off

\* C22: every block id is the declared offset padded on the left with "0" to
\* BlockIDLen characters.
C22_BlockIDZeroPadded ==
    \A i \in 1..Len(BlockIDs) :
        /\ Len(BlockIDs[i]) = BlockIDLen
        /\ \E off \in OffsetInputs : BlockIDs[i] = ZeroPadded(off)

\* The rounds the loop may take for a total of m: one for 0, else m / maxResults
\* rounded up.
MaxRounds(m) == IF m = 0 THEN 1 ELSE (m + maxResults - 1) \div maxResults

\* C23: the loop of list takes at most MaxRounds rounds, goes on only after a
\* round that succeeded and was given a further marker, and ends.
C23_ListTerminates ==
    /\ [](/\ listing.rounds <= MaxRounds(listing.total)
          /\ listing.at = "loop"
             => (/\ listing.rounds < MaxRounds(listing.total)
                 /\ ~listing.err
                 /\ listing.marker # "done"))
    /\ (listing.at = "loop") ~> (listing.at = "idle")

C23_Witness ==
    /\ listing.at = "idle"
    /\ ~listing.err
    /\ listing.total = 15001
    /\ listing.rounds = 4
    /\ listing.marker = "more"

\* C24: when a put of s3.go has returned fewer than MinBufferSize bytes are
\* pending; a put that reaches the threshold hands all pending bytes to one
\* upload-part call and leaves none.
C24_BufferBelowThreshold ==
    [][last'.op = "put"
       => (/\ Len(buffer') < MinBufferSize
           /\ LET ups == SelectSeq(last'.calls, IsUploadPart)
              IN  /\ Len(ups) <= 1
                  /\ ups = <<>> => SubSeq(buffer', 1, Len(buffer)) = buffer
                  /\ ups # <<>>
                     => (/\ buffer' = <<>>
                         /\ Len(ups[1].body) >= MinBufferSize
                         /\ SubSeq(ups[1].body, 1, Len(buffer)) = buffer))]_vars

C24_Witness ==
    /\ last.op = "put"
    /\ Len(UploadPartCalls) = 1
    /\ UploadPartCalls[1].ok
    /\ UploadPartCalls[1].pn = 2
    /\ Len(UploadPartCalls[1].body) > MinBufferSize
    /\ buffer = <<>>

\* C25: every block id handed to CommitBlockList for a blob was staged for
\* that blob by a put that succeeded.
C25_CommitsOnlyStaged ==
    [][\A i \in 1..Len(last'.calls) :
          last'.calls[i].api = "CommitBlockList"
          => \A j \in 1..Len(last'.calls[i].list) :
                \E b \in staged[last'.key] : b.id = last'.calls[i].list[j]]_vars

\* C26: no upload-part, commit or abort call is issued for an upload that an
\* earlier operation aborted or committed.
C26_ClosedUploadsUntouched ==
    [][\A i \in 1..Len(last'.calls) :
          (/\ last'.calls[i].api \in {"UploadPart", "CompleteMultipartUpload",
                                      "AbortMultipartUpload"}
           /\ last'.calls[i].id \in 1..Len(uploads))
          => IsOpen(uploads, last'.calls[i].id)]_vars

C26_Witness ==
    /\ last.op = "put"
    /\ UploadPartCalls # <<>>
    /\ UploadPartCalls[1].id = 2
    /\ UploadPartCalls[1].ok
    /\ ~IsOpen(uploads, 1)

\* C27: parts of part_000 that declared the same offset are listed in the
\* commit call in the order of their part numbers, and the call lists every
\* part of the session once.
C27_EqualOffsetsKeepOrder ==
    [][\A i \in 1..Len(last'.calls) :
          IsComplete(last'.calls[i])
          => LET list == last'.calls[i].list
                 had == IF NeedsBackup(last'.key) THEN <<>>
                        ELSE backups[last'.key].CompletedParts
             IN  /\ Len(list) = Len(had)
                 /\ {list[j] : j \in 1..Len(list)}
                       = {had[j].CompletedPart : j \in 1..Len(had)}
                 /\ \A j, k \in 1..Len(list) :
                       (j < k /\ last'.offs[j] = last'.offs[k])
                       => list[j].PartNumber < list[k].PartNumber]_vars

C27_Witness ==
    /\ last.op = "putblocklist"
    /\ CompleteCalls # <<>>
    /\ PartNumbers(CompleteCalls[1].list) = <<1, 2>>
    /\ last.offs[1] = last.offs[2]

====
